---- MODULE Spec2Model ----
(***************************************************************************)
(* Closure-table tree of go-bumbu/closure-tree (closuretree.go, the        *)
(* context-aware version of Tree).  The node table and the relation table  *)
(* are the state; Add, Update, Move and DeleteRecurse are the actions,     *)
(* each translated statement by statement from its SQL.                    *)
(*                                                                         *)
(* The relation table carries no uniqueness constraint: the gorm tag of    *)
(* closureTree uses "," where gorm splits on ";", so neither primaryKey    *)
(* nor uniqueIndex is in force (and TestMove could not pass if one were:   *)
(* Move first inserts (0, d, k') next to the old (0, d, k)).  The table is *)
(* therefore a bag of rows.                                                *)
(***************************************************************************)
EXTENDS Integers, Sequences, FiniteSets, TLC

\* ---------------------------------------------------------------- bounds
MaxId == 4          \* ids the storage hands out: 1..MaxId
MaxCalls == 6       \* successful calls in one behaviour
MaxCallsOne == 7    \* the same, in the behaviours of one tenant (SpecOne)
MaxCallsQ == 5      \* the same, in the behaviours whose states are queried (SpecQ)
MaxBuild == 3       \* Add calls that build the tree before calls are followed statement by statement
MaxCallsI == 3      \* successful calls in the behaviours whose calls carry items (SpecI)

\* ------------------------------------------------------------- constants
DefaultTenant == "DefaultTenant"
absMaxDepth == 2147483647

OtherTenant == "t2"
TenantArgs == {"", DefaultTenant, OtherTenant}   \* tenant strings a caller passes
IdArgs == 0..MaxId                               \* uint arguments, 0 included
AddNames == {"x"}                                \* payload of an added item
UpdateNames == {"", "y"}                         \* payload of an update; "" is Go's zero value
DepthArgs == {0, 1, 2}                           \* maxDepth arguments; 0 asks for all levels

\* The item a caller passes to Add and Update.  hasNode accepts a struct that embeds
\* Node (TestPayload) and Node itself (node_test.go, "Struct is Node"); the item is
\* passed by reference (ptr) or by value, and carries NodeId and Tenant values.
\* A struct without Node (nonEmbeddingStruct) and a value that is no struct (a string)
\* carry neither.
ItemKinds == {"embeds", "node"}
OtherKinds == {"plain", "string"}
ItemIds == {0, MaxId}
ItemTenants == {"", OtherTenant}
ItemArgs ==
    [kind : ItemKinds, ptr : BOOLEAN, NodeId : ItemIds, Tenant : ItemTenants]
    \cup [kind : OtherKinds, ptr : BOOLEAN, NodeId : {0}, Tenant : {""}]
NoItem == [kind |-> "embeds", ptr |-> FALSE, NodeId |-> 0, Tenant |-> ""]

VARIABLES
    nodes,      \* node table: node_id -> [Tenant, Name]
    rels,       \* relation table: bag of closureTree rows (row -> copies)
    lastId,     \* AUTO_INCREMENT counter of the node table
    calls,      \* calls that have returned nil so far
    last,       \* the call that ran last: operation, arguments, returned error
    pre,        \* node and relation table as they were before that call
    tx          \* per caller: the call it is in the middle of, with its uncommitted writes

vars == <<nodes, rels, lastId, calls, last, pre, tx>>

\* ------------------------------------------------------------ bag helpers
RECURSIVE SumOver(_, _)
SumOver(S, f) ==
    IF S = {} THEN 0
    ELSE LET x == CHOOSE y \in S : TRUE IN f[x] + SumOver(S \ {x}, f)

Copies(B, r) == IF r \in DOMAIN B THEN B[r] ELSE 0

BagSize(B) == SumOver(DOMAIN B, B)

BagPlus(B1, B2) ==
    [r \in (DOMAIN B1) \cup (DOMAIN B2) |-> Copies(B1, r) + Copies(B2, r)]

\* DELETE FROM ... WHERE row IN S: every copy of a matching row goes
BagWithout(B, S) == [r \in (DOMAIN B) \ S |-> B[r]]

\* the copies B1 has beyond those of B2
BagMinus(B1, B2) == [r \in {x \in DOMAIN B1 : B1[x] > Copies(B2, x)} |-> B1[r] - Copies(B2, r)]

EmptyBag == [r \in {} |-> 0]

closureTree(a, d, t, k) ==
    [AncestorID |-> a, DescendantID |-> d, Tenant |-> t, Depth |-> k]

\* ---------------------------------------------------------------- helpers
defaultTenant(in) == IF in = "" THEN DefaultTenant ELSE in

\* SELECT count(*) ... WHERE ancestor_id = nodeID AND descendant_id = parentId AND tenant = ?
IsDescendant(R, nodeID, parentId, tenant) ==
    \E r \in DOMAIN R :
        r.AncestorID = nodeID /\ r.DescendantID = parentId /\ r.Tenant = tenant

\* SELECT count(*) ... WHERE ancestor_id = parentID AND descendant_id = nodeID AND depth = 1 AND tenant = ?
IsChildOf(R, nodeID, parentID, tenant) ==
    \E r \in DOMAIN R :
        /\ r.AncestorID = parentID /\ r.DescendantID = nodeID
        /\ r.Depth = 1 /\ r.Tenant = tenant

\* Result of a call: the tables after it and the error it returns ("" = nil)
Result(N, R, L, err, id) == [nodes |-> N, rels |-> R, lastId |-> L, err |-> err, id |-> id]

\* ------------------------------------------------------------------- Add
\* addRootRelQuery: INSERT ... VALUES (0, id, tenant, 1)
addRootRelQuery(R, id, tenant) ==
    BagPlus(R, [r \in {closureTree(0, id, tenant, 1)} |-> 1])

\* addRelsQuery: INSERT ... SELECT ancestor_id, id, tenant, depth + 1
\*               FROM rel WHERE descendant_id = parentID   (one row per copy)
addRelsQuery(R, id, tenant, parentID) ==
    LET src == {r \in DOMAIN R : r.DescendantID = parentID}
        out(r) == closureTree(r.AncestorID, id, tenant, r.Depth + 1)
        new == {out(r) : r \in src}
        ins == [n \in new |-> SumOver({r \in src : out(r) = n}, R)]
    IN  BagPlus(R, ins)

\* Tree.Add with the parent looked up by id alone (no tenant in the WHERE clause)
AddAnyTenantParent(N, R, L, name, parentID, tenantIn) ==
    LET tenant == defaultTenant(tenantIn)
        id == L + 1
        R1 == BagPlus(R, [r \in {closureTree(id, id, tenant, 0)} |-> 1])
        R2 == IF parentID = 0 THEN addRootRelQuery(R1, id, tenant)
              ELSE addRelsQuery(R1, id, tenant, parentID)
    IN  IF parentID # 0 /\ parentID \notin DOMAIN N
        THEN Result(N, R, L, "ParentNotFound", 0)
        ELSE Result([i \in (DOMAIN N) \cup {id} |->
                        IF i = id THEN [Tenant |-> tenant, Name |-> name] ELSE N[i]],
                    R2, id, "", id)

\* Tree.Add: parent check, then node row, reflexive row, root marker or ancestor copy
Add(N, R, L, name, parentID, tenantIn) ==
    LET tenant == defaultTenant(tenantIn)
        id == L + 1
        R1 == BagPlus(R, [r \in {closureTree(id, id, tenant, 0)} |-> 1])
        R2 == IF parentID = 0 THEN addRootRelQuery(R1, id, tenant)
              ELSE addRelsQuery(R1, id, tenant, parentID)
    IN  IF parentID # 0 /\ ~(parentID \in DOMAIN N /\ N[parentID].Tenant = tenant)
        THEN Result(N, R, L, "ParentNotFound", 0)
        ELSE Result([i \in (DOMAIN N) \cup {id} |->
                        IF i = id THEN [Tenant |-> tenant, Name |-> name] ELSE N[i]],
                    R2, id, "", id)

\* ---------------------------------------------------------------- Update
\* Tree.Update: UPDATE nodes SET <non-zero fields> WHERE node_id = id AND tenant = ?
\* (gorm's Updates(struct) skips zero-valued fields, so Name "" is not written)
Update(N, R, L, id, name, tenantIn) ==
    LET tenant == defaultTenant(tenantIn)
        hit == {i \in DOMAIN N : i = id /\ N[i].Tenant = tenant}
    IN  IF hit = {} THEN Result(N, R, L, "NodeNotFound", 0)
        ELSE Result([i \in DOMAIN N |->
                        IF i \in hit
                        THEN [Tenant |-> tenant,
                              Name |-> IF name = "" THEN N[i].Name ELSE name]
                        ELSE N[i]],
                    R, L, "", id)

\* hasNode, up to its loop: the item, or what it points to, is a struct
isStruct(item) == item.kind \in {"embeds", "node", "plain"}

\* hasNode without the loop over the fields: every struct passes
hasNodeAnyStruct(item) == isStruct(item)

\* hasNode: a struct with an anonymous field of type Node, or with a field NodeId of
\* type uint (Node itself)
hasNode(item) == isStruct(item) /\ item.kind \in {"embeds", "node"}

\* Tree.Add with the item it is given.  The loop that resets Node{NodeId: 0, Tenant:
\* tenant} looks at the anonymous fields of the item only: an item that embeds Node
\* is stored as Add above stores it; an item that is a Node has no such field, so
\* Create inserts it with the NodeId and the Tenant it carries (a NodeId of 0 lets the
\* storage assign one, a NodeId already in the table fails on the primary key), and
\* getNodeData hands that raw tenant to the relation rows.  A Node has no payload.
\* The storage counter follows the largest id inserted.
AddItem(N, R, L, item, name, parentID, tenantIn) ==
    LET tenant == defaultTenant(tenantIn)
        id == IF item.NodeId # 0 THEN item.NodeId ELSE L + 1
        stored == item.Tenant
        R1 == BagPlus(R, [r \in {closureTree(id, id, stored, 0)} |-> 1])
        R2 == IF parentID = 0 THEN addRootRelQuery(R1, id, stored)
              ELSE addRelsQuery(R1, id, stored, parentID)
    IN  IF ~hasNode(item) THEN Result(N, R, L, "ItemIsNotTreeNode", 0)
        ELSE IF item.kind = "embeds" THEN Add(N, R, L, name, parentID, tenantIn)
        ELSE IF parentID # 0 /\ ~(parentID \in DOMAIN N /\ N[parentID].Tenant = tenant)
        THEN Result(N, R, L, "ParentNotFound", 0)
        ELSE IF id \in DOMAIN N
        THEN Result(N, R, L, "unable to add node", 0)
        ELSE Result([i \in (DOMAIN N) \cup {id} |->
                        IF i = id THEN [Tenant |-> stored, Name |-> ""] ELSE N[i]],
                    R2, IF id > L THEN id ELSE L, "", id)

\* the caller's item after Add returned res: "if topItem is a pointer copy the ID back
\* into it", NodeId from the stored copy and Tenant from the normalized argument
AddWriteBack(item, res, tenantIn) ==
    IF res.err = "" /\ item.ptr
    THEN [item EXCEPT !.NodeId = res.id, !.Tenant = defaultTenant(tenantIn)]
    ELSE item

\* Tree.Update with the item it is given, on a storage that reports in RowsAffected
\* the rows matched (sqlite, postgres) or only the rows changed (mysql, whose DSN in
\* helper_test.go sets no clientFoundRows).  gorm's Updates(struct) sets the non-zero
\* fields other than the primary key and adds "node_id = <NodeId>" to the WHERE clause
\* when the NodeId of the struct is not 0; with no field to set it runs no statement.
\* An item that embeds Node got Node{NodeId: id, Tenant: tenant}; a Node keeps its own.
UpdateItem(N, R, L, id, item, name, tenantIn, changedOnly) ==
    LET tenant == defaultTenant(tenantIn)
        setTenant == IF item.kind = "embeds" THEN tenant ELSE item.Tenant
        setName == IF item.kind = "embeds" THEN name ELSE ""
        pk == IF item.kind = "embeds" THEN id ELSE item.NodeId
        hit == {i \in DOMAIN N : i = id /\ N[i].Tenant = tenant /\ (pk = 0 \/ i = pk)}
        new(i) == [Tenant |-> IF setTenant = "" THEN N[i].Tenant ELSE setTenant,
                   Name |-> IF setName = "" THEN N[i].Name ELSE setName]
        affected == IF setTenant = "" /\ setName = "" THEN {}
                    ELSE IF changedOnly THEN {i \in hit : new(i) # N[i]}
                    ELSE hit
    IN  IF ~hasNode(item) THEN Result(N, R, L, "ItemIsNotTreeNode", 0)
        ELSE IF item.kind = "embeds" /\ ~changedOnly THEN Update(N, R, L, id, name, tenantIn)
        ELSE IF affected = {} THEN Result(N, R, L, "NodeNotFound", 0)
        ELSE Result([i \in DOMAIN N |-> IF i \in hit THEN new(i) ELSE N[i]],
                    R, L, "", id)

\* ------------------------------------------------------------------ Move
\* moveQueryInsertNewToRoot: SELECT 0, c.descendant_id, c.depth + 1, c.tenant
\*                           FROM rel c WHERE c.ancestor_id = nodeId AND c.tenant = ?
moveQueryInsertNewToRoot(R, nodeId, tenant) ==
    LET cs == {c \in DOMAIN R : c.AncestorID = nodeId /\ c.Tenant = tenant}
        out(c) == closureTree(0, c.DescendantID, c.Tenant, c.Depth + 1)
        new == {out(c) : c \in cs}
    IN  [n \in new |-> SumOver({c \in cs : out(c) = n}, R)]

\* moveQueryInsertNew: SELECT p.ancestor_id, c.descendant_id, p.depth + c.depth + 1, p.Tenant
\*   FROM rel p JOIN rel c ON c.ancestor_id = nodeId
\*   WHERE p.descendant_id = newParentID AND p.Tenant = ? AND c.Tenant = ?
moveQueryInsertNew(R, nodeId, newParentID, tenant) ==
    LET ps == {p \in DOMAIN R : p.DescendantID = newParentID /\ p.Tenant = tenant}
        cs == {c \in DOMAIN R : c.AncestorID = nodeId /\ c.Tenant = tenant}
        out(p, c) == closureTree(p.AncestorID, c.DescendantID, p.Tenant,
                                 p.Depth + c.Depth + 1)
        pairs == ps \X cs
        new == {out(pc[1], pc[2]) : pc \in pairs}
        cnt == [pc \in pairs |-> R[pc[1]] * R[pc[2]]]    \* one line per pair of copies
    IN  [n \in new |-> SumOver({pc \in pairs : out(pc[1], pc[2]) = n}, cnt)]

\* CTE subtree: descendant_id of the rows with ancestor_id = nodeId AND tenant = ?
subtree(R, nodeId, tenant) ==
    {r.DescendantID : r \in {x \in DOMAIN R : x.AncestorID = nodeId /\ x.Tenant = tenant}}

\* CTE old_paths: rows into the subtree from outside it, self-links skipped
old_paths(R, nodeId, tenant) ==
    LET sub == subtree(R, nodeId, tenant)
    IN  {o \in DOMAIN R :
            /\ o.DescendantID \in sub
            /\ o.Tenant = tenant
            /\ o.AncestorID # o.DescendantID
            /\ o.AncestorID \notin sub}

\* CTE new_paths of moveQueryDeleteOld, as <<ancestor_id, descendant_id, depth>>
new_paths(R, nodeId, newParentID, tenant) ==
    {<<p.AncestorID, c.DescendantID, p.Depth + c.Depth + 1>> :
        <<p, c>> \in {pc \in (DOMAIN R) \X (DOMAIN R) :
                        /\ pc[2].AncestorID = nodeId
                        /\ pc[1].DescendantID = newParentID
                        /\ pc[1].Tenant = tenant /\ pc[2].Tenant = tenant}}

\* DELETE ... WHERE row IN (old_paths o LEFT JOIN new_paths n ON same ancestor and
\* descendant WHERE n.descendant_id IS NULL OR o.depth != n.depth)
DeleteOld(R, olds, news) ==
    LET match(o) == {n \in news : n[1] = o.AncestorID /\ n[2] = o.DescendantID}
        sel == {o \in olds : match(o) = {} \/ \E n \in match(o) : o.Depth # n[3]}
    IN  BagWithout(R, sel)

moveQueryDeleteOld(R, nodeId, newParentID, tenant) ==
    DeleteOld(R, old_paths(R, nodeId, tenant), new_paths(R, nodeId, newParentID, tenant))

\* moveQueryToRootDeleteOld: the same, new_paths UNION ALL (0, nodeId, 1)
moveQueryToRootDeleteOld(R, nodeId, newParentID, tenant) ==
    DeleteOld(R, old_paths(R, nodeId, tenant),
              new_paths(R, nodeId, newParentID, tenant) \cup {<<0, nodeId, 1>>})

\* Tree.Move
Move(N, R, L, nodeId, newParentID, tenantIn) ==
    LET tenant == defaultTenant(tenantIn)
        ins == IF newParentID = 0 THEN moveQueryInsertNewToRoot(R, nodeId, tenant)
               ELSE moveQueryInsertNew(R, nodeId, newParentID, tenant)
        R1 == BagPlus(R, ins)
        R2 == IF newParentID = 0
              THEN moveQueryToRootDeleteOld(R1, nodeId, newParentID, tenant)
              ELSE moveQueryDeleteOld(R1, nodeId, newParentID, tenant)
    IN  IF IsChildOf(R, nodeId, newParentID, tenant)
        THEN Result(N, R, L, "InvalidMove", 0)
        ELSE IF newParentID # 0 /\ IsDescendant(R, nodeId, newParentID, tenant)
        THEN Result(N, R, L, "InvalidMove", 0)
        ELSE IF BagSize(ins) = 0
        THEN Result(N, R, L, "NodeNotFound", 0)
        ELSE Result(N, R2, L, "", nodeId)

\* --------------------------------------------------------- DeleteRecurse
\* deleteNodesRec: nodes joined to rel on descendant_id = node_id
\*                 WHERE ct.ancestor_id = nodeId AND nodes.Tenant = ?
deleteNodesRec(N, R, nodeId, tenant) ==
    {i \in DOMAIN N :
        /\ N[i].Tenant = tenant
        /\ \E r \in DOMAIN R : r.DescendantID = i /\ r.AncestorID = nodeId}

\* deleteRelationsQuery: DELETE FROM rel WHERE descendant_id IN
\*                       (SELECT descendant_id FROM rel WHERE ancestor_id = nodeId)
deleteRelationsQuery(R, nodeId) ==
    LET descendants == {r.DescendantID : r \in {x \in DOMAIN R : x.AncestorID = nodeId}}
    IN  BagWithout(R, {r \in DOMAIN R : r.DescendantID \in descendants})

\* Tree.DeleteRecurse (the tenant argument is used as passed)
DeleteRecurse(N, R, L, nodeId, tenant) ==
    LET gone == deleteNodesRec(N, R, nodeId, tenant)
    IN  IF gone = {} THEN Result(N, R, L, "NodeNotFound", 0)
        ELSE Result([i \in (DOMAIN N) \ gone |-> N[i]],
                    deleteRelationsQuery(R, nodeId), L, "", nodeId)

\* --------------------------------------------------------------- queries
\* Tree.GetNode: the row with node_id = ? AND tenant = ?, or NodeNotFound
GetNode(N, nodeID, tenantIn) ==
    LET tenant == defaultTenant(tenantIn)
    IN  IF nodeID \in DOMAIN N /\ N[nodeID].Tenant = tenant
        THEN [err |-> "", id |-> nodeID, item |-> N[nodeID]]
        ELSE [err |-> "NodeNotFound", id |-> 0, item |-> [Tenant |-> "", Name |-> ""]]

\* Tree.GetNode with the item it is given: hasNode first, then First(item) scans the row into the item
\* and, as gorm documents for a destination whose primary key is set, adds
\* "node_id = <NodeId of the item>" to the conditions; an item passed by value is
\* refused before the query
GetNodeItem(N, nodeID, tenantIn, item) ==
    LET tenant == defaultTenant(tenantIn)
        hit == {i \in DOMAIN N : /\ i = nodeID /\ N[i].Tenant = tenant
                                  /\ (item.NodeId = 0 \/ i = item.NodeId)}
    IN  IF ~hasNode(item) THEN [err |-> "ItemIsNotTreeNode", id |-> 0, back |-> item]
        ELSE IF ~item.ptr
        THEN [err |-> "item needs to be a pointer to a struct", id |-> 0, back |-> item]
        ELSE IF hit = {} THEN [err |-> "NodeNotFound", id |-> 0, back |-> item]
        ELSE [err |-> "", id |-> nodeID,
              back |-> [item EXCEPT !.NodeId = nodeID, !.Tenant = N[nodeID].Tenant]]

\* descendantsIDQuery without the nodes.Tenant = ? condition
descendantsIDQueryAnyTenant(N, R, parent, maxDepth, tenant) ==
    LET hit == {r \in DOMAIN R :
                  /\ r.DescendantID \in DOMAIN N
                  /\ r.AncestorID = parent /\ r.Depth > 0 /\ r.Depth <= maxDepth}
    IN  [r \in hit |-> R[r]]

\* descendantsIDQuery: one result line per copy of a relation row (nodes JOIN rel),
\* WHERE ct.ancestor_id = ? AND ct.depth > 0 AND ct.depth <= ? AND nodes.Tenant = ?
descendantsIDQuery(N, R, parent, maxDepth, tenant) ==
    LET hit == {r \in DOMAIN R :
                  /\ r.DescendantID \in DOMAIN N
                  /\ r.AncestorID = parent /\ r.Depth > 0 /\ r.Depth <= maxDepth
                  /\ N[r.DescendantID].Tenant = tenant}
    IN  [r \in hit |-> R[r]]

\* number of times id occurs in the slice Tree.DescendantIds returns
DescendantIdsCount(N, R, parent, maxDepthIn, tenantIn, id) ==
    LET tenant == defaultTenant(tenantIn)
        maxDepth == IF maxDepthIn <= 0 THEN absMaxDepth ELSE maxDepthIn
        q == descendantsIDQuery(N, R, parent, maxDepth, tenant)
    IN  SumOver({r \in DOMAIN q : r.DescendantID = id}, q)

\* the ids in the slice Tree.DescendantIds returns
DescendantIds(N, R, parent, maxDepthIn, tenantIn) ==
    {i \in DOMAIN N : DescendantIdsCount(N, R, parent, maxDepthIn, tenantIn, i) > 0}

\* descendantsQuery: nodes JOIN rel ct LEFT JOIN rel parent_rel (its depth-1 rows into
\* the node), WHERE ct.ancestor_id = ? AND ct.depth > 0 AND ct.depth <= ? AND
\* nodes.tenant = ?; one line <<node_id, parent_id>> per copy of ct and of parent_rel,
\* a node without depth-1 row gives one line with parent_id NULL (scanned as 0)
descendantsQuery(N, R, parent, maxDepth, tenant) ==
    LET cts == {r \in DOMAIN R :
                  /\ r.DescendantID \in DOMAIN N
                  /\ r.AncestorID = parent /\ r.Depth > 0 /\ r.Depth <= maxDepth
                  /\ N[r.DescendantID].Tenant = tenant}
        prs(i) == {r \in DOMAIN R : r.DescendantID = i /\ r.Depth = 1}
        joined == {<<c, x>> \in cts \X (DOMAIN R) : x \in prs(c.DescendantID)}
        alone == {c \in cts : prs(c.DescendantID) = {}}
        line(cx) == <<cx[1].DescendantID, cx[2].AncestorID>>
        lines == {line(cx) : cx \in joined} \cup {<<c.DescendantID, 0>> : c \in alone}
        cntJ == [cx \in joined |-> R[cx[1]] * R[cx[2]]]
    IN  [l \in lines |->
            SumOver({cx \in joined : line(cx) = l}, cntJ)
            + SumOver({c \in alone : <<c.DescendantID, 0>> = l}, R)]

\* Tree.Descendants: the lines of descendantsQuery (the tenant argument is used as passed)
Descendants(N, R, parent, maxDepthIn, tenant) ==
    LET maxDepth == IF maxDepthIn <= 0 THEN absMaxDepth ELSE maxDepthIn
    IN  descendantsQuery(N, R, parent, maxDepth, tenant)

\* ORDER BY ct.depth of descendantsIDQuery and descendantsQuery: whether the storage
\* can return a line of relation row c1 before a line of relation row c2 (lines of
\* equal ct.depth come in any order)
MayPrecede(c1, c2) == c1.Depth <= c2.Depth

\* the relation rows ct behind the lines Descendants (byId FALSE, tenant as passed)
\* and DescendantIds (byId TRUE, tenant normalized) return
OrderedRows(N, R, parent, maxDepthIn, tenantIn, byId) ==
    LET tenant == IF byId THEN defaultTenant(tenantIn) ELSE tenantIn
        maxDepth == IF maxDepthIn <= 0 THEN absMaxDepth ELSE maxDepthIn
    IN  DOMAIN descendantsIDQuery(N, R, parent, maxDepth, tenant)

\* the recursive CTE Tree of treeDescendantsQuery and treeDescendantsIDQuery: level k
\* holds the lines <<node_id, ancestor_id>> the k-th round of the recursion adds.
\* Base case: nodes JOIN rel ct WHERE ct.ancestor_id = ? AND ct.depth = 1 AND
\* nodes.Tenant = ?; recursive case: Tree t JOIN rel ct ON ct.ancestor_id = t.node_id
\* AND ct.depth = 1 JOIN nodes WHERE nodes.Tenant = ?
RECURSIVE Tree(_, _, _, _, _)
Tree(N, R, parent, tenant, k) ==
    LET from(a) == {r \in DOMAIN R :
                      /\ r.AncestorID = a /\ r.Depth = 1
                      /\ r.DescendantID \in DOMAIN N
                      /\ N[r.DescendantID].Tenant = tenant}
    IN  IF k = 0 THEN {<<r.DescendantID, r.AncestorID>> : r \in from(parent)}
        ELSE UNION {{<<r.DescendantID, t[1]>> : r \in from(t[1])} :
                        t \in Tree(N, R, parent, tenant, k - 1)}

\* rounds of the recursion that can bring a node not seen before
TreeRounds == 0..MaxId

\* treeDescendantsIDQuery: the lines <<node_id, ancestor_id, depth>> of Tree, the
\* recursion going on WHERE t.depth < maxDepth
treeDescendantsIDQuery(N, R, parent, maxDepth, tenant) ==
    UNION {{<<l[1], l[2], k>> : l \in Tree(N, R, parent, tenant, k)} :
              k \in {j \in TreeRounds : j <= maxDepth}}

\* treeDescendantsQuery: the same lines, carrying nodes.* instead of node_id
treeDescendantsQuery(N, R, parent, maxDepth, tenant) ==
    treeDescendantsIDQuery(N, R, parent, maxDepth, tenant)

\* the ids of the nodes in the forest Tree.TreeDescendantsIds returns (every
\* scanned line becomes one entry of nodeMap, a top-level one or a child)
TreeDescendantsIds(N, R, parent, maxDepthIn, tenantIn) ==
    LET tenant == defaultTenant(tenantIn)
        maxDepth == IF maxDepthIn <= 0 THEN absMaxDepth ELSE maxDepthIn - 1
    IN  {l[1] : l \in treeDescendantsIDQuery(N, R, parent, maxDepth, tenant)}

\* the ids of the nodes in the forest Tree.TreeDescendants returns
TreeDescendants(N, R, parent, maxDepthIn, tenantIn) ==
    LET tenant == defaultTenant(tenantIn)
        maxDepth == IF maxDepthIn <= 0 THEN absMaxDepth ELSE maxDepthIn - 1
    IN  {l[1] : l \in treeDescendantsQuery(N, R, parent, maxDepth, tenant)}

\* the lines <<node_id, ancestor_id, depth>> TreeDescendantsIds (byId) and
\* TreeDescendants scan, ORDER BY depth
TreeLines(N, R, parent, maxDepthIn, tenantIn, byId) ==
    LET tenant == defaultTenant(tenantIn)
        maxDepth == IF maxDepthIn <= 0 THEN absMaxDepth ELSE maxDepthIn - 1
    IN  IF byId THEN treeDescendantsIDQuery(N, R, parent, maxDepth, tenant)
        ELSE treeDescendantsQuery(N, R, parent, maxDepth, tenant)

\* nodeMap[node.NodeId] = &node (scanRowsToNodes: nodes[nodeID], ancestorMap[nodeID]):
\* one entry per node id, the last line scanned for it; lines of equal depth come in
\* any order, so the entry holds one of the ancestor ids of the node's deepest lines
nodeMap(lines) ==
    [i \in {l[1] : l \in lines} |->
        {l[2] : l \in {x \in lines :
                          x[1] = i /\ \A y \in lines : y[1] = i => y[3] <= x[3]}}]

\* the entries that can end up top level (trees, roots): "if par, exists :=
\* nodeMap[node.AncestorID]; exists {...} else { trees = append(trees, node) }"
trees(lines) ==
    LET nm == nodeMap(lines)
    IN  {i \in DOMAIN nm : \E a \in nm[i] : a \notin DOMAIN nm}

\* the entries that can end up among the Children of the entry of n:
\* par.Children = append(par.Children, node)
Children(lines, n) ==
    LET nm == nodeMap(lines)
    IN  IF n \in DOMAIN nm THEN {i \in DOMAIN nm : n \in nm[i]} ELSE {}

\* the maps nodeMap can end up as: for every scanned id one of the ancestor ids it
\* can hold (the lines of equal depth come in any order)
RECURSIVE nodeMaps(_, _)
nodeMaps(nm, ids) ==
    IF ids = {} THEN {[i \in {} |-> 0]}
    ELSE LET x == CHOOSE y \in ids : TRUE
         IN  {[i \in ids |-> IF i = x THEN a ELSE m[i]] :
                 a \in nm[x], m \in nodeMaps(nm, ids \ {x})}

\* the ids of the entries reachable in the forest from the entries in S: an entry
\* whose AncestorID is in the map was appended to the Children of that entry
RECURSIVE forestFrom(_, _)
forestFrom(m, S) ==
    LET more == S \cup {i \in DOMAIN m : m[i] \in S}
    IN  IF more = S THEN S ELSE forestFrom(m, more)

\* the ids in the forest TreeDescendantsIds returns when nodeMap ended up as m:
\* trees are the entries whose AncestorID is not in the map, the other entries hang
\* in the Children of the entry of their AncestorID
forestIds(m) == forestFrom(m, {i \in DOMAIN m : m[i] \notin DOMAIN m})

\* rootIdsQuery and rootsQuery: SELECT DISTINCT nodes.node_id (nodes.*) FROM nodes
\*   JOIN rel ct1 ON nodes.node_id = ct1.ancestor_id
\*   LEFT JOIN rel ct2 ON ct1.ancestor_id = ct2.descendant_id AND ct2.depth = 1
\*   WHERE ct2.descendant_id IS NULL AND nodes.Tenant = ?
rootIdsQuery(N, R, tenant) ==
    {i \in DOMAIN N :
        /\ N[i].Tenant = tenant
        /\ \E ct1 \in DOMAIN R : ct1.AncestorID = i
        /\ ~\E ct2 \in DOMAIN R : ct2.DescendantID = i /\ ct2.Depth = 1}

\* Tree.RootIds
RootIds(N, R, tenantIn) == rootIdsQuery(N, R, defaultTenant(tenantIn))

\* the ids of the nodes Tree.Roots returns
Roots(N, R, tenantIn) == rootIdsQuery(N, R, defaultTenant(tenantIn))

\* ------------------------------------------------------------ the program
NoCall == [op |-> "New", a |-> 0, b |-> 0, tenant |-> "", name |-> "", err |-> "", id |-> 0,
           item |-> NoItem, back |-> NoItem]

\* the callers that can be in the middle of a call
Procs == {1, 2}

\* a caller that is not in a call
NoTx == [st |-> "idle", op |-> "", a |-> 0, b |-> 0, tenant |-> "", pc |-> 0, id |-> 0,
         insN |-> [i \in {} |-> 0], delN |-> {}, insR |-> EmptyBag, delR |-> EmptyBag,
         err |-> "", failed |-> FALSE]

Init ==
    /\ nodes = [i \in {} |-> 0]
    /\ rels = EmptyBag
    /\ lastId = 0
    /\ calls = 0
    /\ last = NoCall
    /\ pre = [nodes |-> [i \in {} |-> 0], rels |-> EmptyBag]
    /\ tx = [p \in Procs |-> NoTx]

\* The caller issues one call at a time and stops at the first error it gets
\* (populateTree: t.Fatal(err)); a failed call is thus the last step of a behaviour.
\* maxCalls bounds the calls that return nil.
\* item is what the caller passed and back what the caller holds after the call.
ApplyItem(maxCalls, op, a, b, tenant, name, item, back, res) ==
    /\ last.err = ""
    /\ calls < maxCalls
    /\ nodes' = res.nodes
    /\ rels' = res.rels
    /\ lastId' = res.lastId
    /\ calls' = IF res.err = "" THEN calls + 1 ELSE calls
    /\ last' = [op |-> op, a |-> a, b |-> b, tenant |-> tenant, name |-> name,
                err |-> res.err, id |-> res.id, item |-> item, back |-> back]
    /\ pre' = [nodes |-> nodes, rels |-> rels]
    /\ UNCHANGED tx

\* a call whose item is not looked at (a TestPayload passed by value)
Apply(maxCalls, op, a, b, tenant, name, res) ==
    ApplyItem(maxCalls, op, a, b, tenant, name, NoItem, NoItem, res)

CallAdd(tenants, maxCalls) ==
    \E name \in AddNames, parentID \in IdArgs, tenant \in tenants :
        /\ lastId < MaxId
        /\ Apply(maxCalls, "Add", 0, parentID, tenant, name,
                 Add(nodes, rels, lastId, name, parentID, tenant))

CallUpdate(tenants, maxCalls) ==
    \E id \in IdArgs, name \in UpdateNames, tenant \in tenants :
        Apply(maxCalls, "Update", id, 0, tenant, name,
              Update(nodes, rels, lastId, id, name, tenant))

CallMove(tenants, maxCalls) ==
    \E nodeId \in IdArgs, newParentID \in IdArgs, tenant \in tenants :
        Apply(maxCalls, "Move", nodeId, newParentID, tenant, "",
              Move(nodes, rels, lastId, nodeId, newParentID, tenant))

CallDeleteRecurse(tenants, maxCalls) ==
    \E nodeId \in IdArgs, tenant \in tenants :
        Apply(maxCalls, "DeleteRecurse", nodeId, 0, tenant, "",
              DeleteRecurse(nodes, rels, lastId, nodeId, tenant))

\* callers of every tenant
DoAdd == CallAdd(TenantArgs, MaxCalls)

DoUpdate == CallUpdate(TenantArgs, MaxCalls)

DoMove == CallMove(TenantArgs, MaxCalls)

DoDeleteRecurse == CallDeleteRecurse(TenantArgs, MaxCalls)

Next == DoAdd \/ DoMove \/ DoDeleteRecurse

Spec == Init /\ [][Next]_vars

\* the same program with Update among the calls
NextU == DoAdd \/ DoUpdate \/ DoMove \/ DoDeleteRecurse

SpecU == Init /\ [][NextU]_vars

\* the same program used by one tenant only, followed over longer call sequences
AddOne == CallAdd({DefaultTenant}, MaxCallsOne)

MoveOne == CallMove({DefaultTenant}, MaxCallsOne)

DeleteRecurseOne == CallDeleteRecurse({DefaultTenant}, MaxCallsOne)

NextOne == AddOne \/ MoveOne \/ DeleteRecurseOne

SpecOne == Init /\ [][NextOne]_vars

\* the same program called with the two tenants that store nodes; the descendant
\* queries are asked in every state it reaches
AddQ == CallAdd({DefaultTenant, OtherTenant}, MaxCallsQ)

MoveQ == CallMove({DefaultTenant, OtherTenant}, MaxCallsQ)

DeleteRecurseQ == CallDeleteRecurse({DefaultTenant, OtherTenant}, MaxCallsQ)

NextQ == AddQ \/ MoveQ \/ DeleteRecurseQ

SpecQ == Init /\ [][NextQ]_vars

\* ------------------------------------- the calls, statement by statement
\* Each of Add, Move and DeleteRecurse runs its statements in one storage
\* transaction (ct.db.WithContext(ctx).Transaction(func(tx) ...)).  A statement on
\* tx reads the committed tables with the transaction's own writes on top (read
\* committed); a read on ct.db reads the committed tables alone.  The writes reach
\* the tables when the closure returns nil, and are dropped when it returns an error.

\* the node table as transaction t sees it
TxNodes(t) ==
    [i \in ((DOMAIN nodes) \ t.delN) \cup (DOMAIN t.insN) |->
        IF i \in DOMAIN t.insN THEN t.insN[i] ELSE nodes[i]]

\* the relation table as transaction t sees it
TxRels(t) == BagPlus(BagMinus(rels, t.delR), t.insR)

\* t after a statement that left its view of the tables as N2 and R2
Written(t, N2, R2) ==
    [t EXCEPT !.insN = [i \in (DOMAIN N2) \ (DOMAIN nodes) |-> N2[i]],
              !.delN = (DOMAIN nodes) \ (DOMAIN N2),
              !.insR = BagMinus(R2, rels),
              !.delR = BagMinus(rels, R2),
              !.pc = t.pc + 1]

\* the same program called with items of every shape, on either kind of storage,
\* GetNode among the calls
AddI ==
    \E item \in ItemArgs, name \in AddNames, parentID \in IdArgs, tenant \in TenantArgs :
        LET res == AddItem(nodes, rels, lastId, item, name, parentID, tenant)
        IN  /\ lastId < MaxId
            /\ ApplyItem(MaxCallsI, "Add", 0, parentID, tenant, name, item,
                         AddWriteBack(item, res, tenant), res)

UpdateI ==
    \E id \in IdArgs, item \in ItemArgs, name \in UpdateNames, tenant \in TenantArgs,
       changedOnly \in BOOLEAN :
        ApplyItem(MaxCallsI, "Update", id, 0, tenant, name, item, item,
                  UpdateItem(nodes, rels, lastId, id, item, name, tenant, changedOnly))

GetNodeI ==
    \E nodeID \in IdArgs, item \in ItemArgs, tenant \in TenantArgs :
        LET got == GetNodeItem(nodes, nodeID, tenant, item)
        IN  ApplyItem(MaxCallsI, "GetNode", nodeID, 0, tenant, "", item, got.back,
                      Result(nodes, rels, lastId, got.err, got.id))

MoveI == CallMove(TenantArgs, MaxCallsI)

DeleteRecurseI == CallDeleteRecurse(TenantArgs, MaxCallsI)

NextI == AddI \/ UpdateI \/ GetNodeI \/ MoveI \/ DeleteRecurseI

SpecI == Init /\ [][NextI]_vars


\* Move returning nil instead of exec2.Error, the other statements checked as they are
ReturnOnErrorButMoveDelete(op, pc) ==
    IF op = "Move" /\ pc = 3 THEN "" ELSE "StatementFailed"

\* the error the closure of a call returns when its statement pc fails or finds the
\* context cancelled: every statement's Error is checked and returned
\* (if err != nil { tx.Rollback(); return err }, return exec2.Error)
ReturnOnError(op, pc) == "StatementFailed"

\* the call of caller p returns err: `last` records it as for a call made in one step
Return(p, t, err, id) ==
    /\ tx' = [tx EXCEPT ![p] = [t EXCEPT !.st = "done", !.err = err, !.id = id,
                                         !.insN = NoTx.insN, !.delN = {},
                                         !.insR = EmptyBag, !.delR = EmptyBag]]
    /\ last' = [op |-> tx[p].op, a |-> tx[p].a, b |-> tx[p].b, tenant |-> tx[p].tenant,
                name |-> "", err |-> err, id |-> id, item |-> NoItem, back |-> NoItem]
    /\ calls' = IF err = "" THEN calls + 1 ELSE calls

\* gorm's Transaction around the closure of caller p: Commit when the closure
\* returns nil, Rollback when it returns err
Transaction(p, t, err, id) ==
    /\ nodes' = IF err = "" THEN TxNodes(t) ELSE nodes
    /\ rels' = IF err = "" THEN TxRels(t) ELSE rels
    /\ Return(p, t, err, id)

\* caller p enters a call; pre keeps the tables as they are when no other call is open
Begin(p, op, a, b, tenant) ==
    /\ tx[p].st = "idle"
    /\ tx' = [tx EXCEPT ![p] = [NoTx EXCEPT !.st = "open", !.op = op, !.a = a, !.b = b,
                                            !.tenant = defaultTenant(tenant), !.pc = 0]]
    /\ pre' = IF \A q \in Procs : tx[q].st # "open"
              THEN [nodes |-> nodes, rels |-> rels] ELSE pre
    /\ UNCHANGED <<nodes, rels, lastId, calls, last>>

At(p, op, pc) == tx[p].st = "open" /\ tx[p].op = op /\ tx[p].pc = pc

Goto(p, t) == tx' = [tx EXCEPT ![p] = t] /\ UNCHANGED <<nodes, rels, lastId, calls, last, pre>>

\* --- Tree.Add
\* the parent check, on ct.db before the transaction is opened
AddCheckParent(p) ==
    /\ At(p, "Add", 0)
    /\ LET t == tx[p]
       IN  IF t.b # 0 /\ ~(t.b \in DOMAIN nodes /\ nodes[t.b].Tenant = t.tenant)
           THEN Transaction(p, t, "ParentNotFound", 0) /\ UNCHANGED <<lastId, pre>>
           ELSE Goto(p, [t EXCEPT !.pc = 1])

\* tx.Table(nodesTbl).Create(reflectItem): the storage assigns the id
AddCreateNode(p) ==
    /\ At(p, "Add", 1)
    /\ lastId < MaxId
    /\ LET t == tx[p]
           id == lastId + 1
           N == TxNodes(t)
           N2 == [i \in (DOMAIN N) \cup {id} |->
                     IF i = id THEN [Tenant |-> t.tenant, Name |-> "x"] ELSE N[i]]
       IN  /\ tx' = [tx EXCEPT ![p] = [Written(t, N2, TxRels(t)) EXCEPT !.id = id]]
           /\ lastId' = id
           /\ UNCHANGED <<nodes, rels, calls, last, pre>>

\* tx.Table(relationsTbl).Create(&closureTree{id, id, tenant, 0})
AddReflexive(p) ==
    /\ At(p, "Add", 2)
    /\ LET t == tx[p]
       IN  Goto(p, Written(t, TxNodes(t),
                           BagPlus(TxRels(t), [r \in {closureTree(t.id, t.id, t.tenant, 0)} |-> 1])))

\* addRootRelQuery or addRelsQuery, then return nil
AddAncestors(p) ==
    /\ At(p, "Add", 3)
    /\ LET t == tx[p]
           R2 == IF t.b = 0 THEN addRootRelQuery(TxRels(t), t.id, t.tenant)
                 ELSE addRelsQuery(TxRels(t), t.id, t.tenant, t.b)
       IN  Transaction(p, Written(t, TxNodes(t), R2), "", t.id)
    /\ UNCHANGED <<lastId, pre>>

\* --- Tree.Move
\* ct.IsChildOf, a read on ct.db
MoveCheckSameParent(p) ==
    /\ At(p, "Move", 0)
    /\ LET t == tx[p]
       IN  IF IsChildOf(rels, t.a, t.b, t.tenant)
           THEN Transaction(p, t, "InvalidMove", 0) /\ UNCHANGED <<lastId, pre>>
           ELSE Goto(p, [t EXCEPT !.pc = 1])

\* ct.IsDescendant, a read on ct.db, skipped for a move to the root
MoveCheckDescendant(p) ==
    /\ At(p, "Move", 1)
    /\ LET t == tx[p]
       IN  IF t.b # 0 /\ IsDescendant(rels, t.a, t.b, t.tenant)
           THEN Transaction(p, t, "InvalidMove", 0) /\ UNCHANGED <<lastId, pre>>
           ELSE Goto(p, [t EXCEPT !.pc = 2])

\* exec1: moveQueryInsertNewToRoot or moveQueryInsertNew; RowsAffected == 0 gives NodeNotFound
MoveInsert(p) ==
    /\ At(p, "Move", 2)
    /\ LET t == tx[p]
           R == TxRels(t)
           ins == IF t.b = 0 THEN moveQueryInsertNewToRoot(R, t.a, t.tenant)
                  ELSE moveQueryInsertNew(R, t.a, t.b, t.tenant)
       IN  IF BagSize(ins) = 0
           THEN Transaction(p, t, "NodeNotFound", 0) /\ UNCHANGED <<lastId, pre>>
           ELSE Goto(p, Written(t, TxNodes(t), BagPlus(R, ins)))

\* exec2: moveQueryToRootDeleteOld or moveQueryDeleteOld, then return exec2.Error
MoveDelete(p) ==
    /\ At(p, "Move", 3)
    /\ LET t == tx[p]
           R2 == IF t.b = 0 THEN moveQueryToRootDeleteOld(TxRels(t), t.a, t.b, t.tenant)
                 ELSE moveQueryDeleteOld(TxRels(t), t.a, t.b, t.tenant)
       IN  Transaction(p, Written(t, TxNodes(t), R2), "", t.a)
    /\ UNCHANGED <<lastId, pre>>

\* --- Tree.DeleteRecurse
\* exec1: deleteNodesRec; RowsAffected == 0 gives NodeNotFound
DeleteNodes(p) ==
    /\ At(p, "DeleteRecurse", 0)
    /\ LET t == tx[p]
           N == TxNodes(t)
           gone == deleteNodesRec(N, TxRels(t), t.a, t.tenant)
       IN  IF gone = {}
           THEN Transaction(p, t, "NodeNotFound", 0) /\ UNCHANGED <<lastId, pre>>
           ELSE Goto(p, Written(t, [i \in (DOMAIN N) \ gone |-> N[i]], TxRels(t)))

\* exec2: deleteRelationsQuery, then return nil
DeleteRelations(p) ==
    /\ At(p, "DeleteRecurse", 1)
    /\ LET t == tx[p]
       IN  Transaction(p, Written(t, TxNodes(t), deleteRelationsQuery(TxRels(t), t.a)), "", t.a)
    /\ UNCHANGED <<lastId, pre>>

\* the transaction of p has written
HasWritten(t) ==
    t.insN # NoTx.insN \/ t.delN # {} \/ t.insR # EmptyBag \/ t.delR # EmptyBag

\* the next statement of an open transaction that has written fails, or finds the
\* context cancelled: the closure returns what ReturnOnError says
StatementFails(p) ==
    /\ tx[p].st = "open"
    /\ HasWritten(tx[p])
    /\ Transaction(p, [tx[p] EXCEPT !.failed = TRUE],
                   ReturnOnError(tx[p].op, tx[p].pc), tx[p].id)
    /\ UNCHANGED <<lastId, pre>>

\* --- the callers
BeginAdd(p) ==
    \E parentID \in IdArgs :
        last.err = "" /\ Begin(p, "Add", 0, parentID, DefaultTenant)

BeginMove(p, nodeIds) ==
    \E nodeId \in nodeIds, newParentID \in IdArgs :
        last.err = "" /\ Begin(p, "Move", nodeId, newParentID, DefaultTenant)

BeginDeleteRecurse(p) ==
    \E nodeId \in IdArgs :
        last.err = "" /\ Begin(p, "DeleteRecurse", nodeId, 0, DefaultTenant)

\* the tree is built by Add calls before any call is followed statement by statement
BuildAdd ==
    /\ \A p \in Procs : tx[p].st = "idle"
    /\ CallAdd({DefaultTenant}, MaxBuild)

\* one caller; a statement of its call can fail after an earlier one has written
OneCall ==
    \/ BeginAdd(1) \/ AddCheckParent(1) \/ AddCreateNode(1) \/ AddReflexive(1)
    \/ AddAncestors(1)
    \/ BeginMove(1, IdArgs) \/ MoveCheckSameParent(1) \/ MoveCheckDescendant(1)
    \/ MoveInsert(1) \/ MoveDelete(1)
    \/ BeginDeleteRecurse(1) \/ DeleteNodes(1) \/ DeleteRelations(1)
    \/ StatementFails(1)

NextTx == BuildAdd \/ OneCall

SpecTx == Init /\ [][NextTx]_vars

\* two callers, each in one Move of an existing-node id, their reads and statements
\* interleaved
TwoMoves ==
    \E p \in Procs :
        \/ BeginMove(p, IdArgs \ {0}) \/ MoveCheckSameParent(p) \/ MoveCheckDescendant(p)
        \/ MoveInsert(p) \/ MoveDelete(p)

NextMoves == BuildAdd \/ TwoMoves

SpecMoves == Init /\ [][NextMoves]_vars

\* caller 1 in one Add and caller 2 in one DeleteRecurse, the parent check of Add and
\* the statements of the two transactions interleaved
AddAndDelete ==
    \/ BeginAdd(1) \/ AddCheckParent(1) \/ AddCreateNode(1) \/ AddReflexive(1)
    \/ AddAncestors(1)
    \/ BeginDeleteRecurse(2) \/ DeleteNodes(2) \/ DeleteRelations(2)

NextAddDelete == BuildAdd \/ AddAndDelete

SpecAddDelete == Init /\ [][NextAddDelete]_vars

\* caller 1 in one Add and caller 2 in one Move of an existing-node id, the reads and
\* statements of the two calls interleaved
AddAndMove ==
    \/ BeginAdd(1) \/ AddCheckParent(1) \/ AddCreateNode(1) \/ AddReflexive(1)
    \/ AddAncestors(1)
    \/ BeginMove(2, IdArgs \ {0}) \/ MoveCheckSameParent(2) \/ MoveCheckDescendant(2)
    \/ MoveInsert(2) \/ MoveDelete(2)

NextAddMove == BuildAdd \/ AddAndMove

SpecAddMove == Init /\ [][NextAddMove]_vars

TypeOK ==
    /\ DOMAIN nodes \subseteq 1..MaxId
    /\ lastId \in 0..MaxId
    /\ calls \in 0..MaxCallsOne
    /\ \A r \in DOMAIN rels : rels[r] >= 1

\* ------------------------------------------------- vocabulary of the claims
\* The tree a relation table describes: the depth-1 rows are its edges.
Parents(R, n) ==
    {r.AncestorID : r \in {x \in DOMAIN R : x.DescendantID = n /\ x.Depth = 1}}

\* the nodes (0 included where a root marker leads there) k edges above n
RECURSIVE AncestorsAt(_, _, _)
AncestorsAt(R, n, k) ==
    IF k = 0 THEN {n}
    ELSE UNION {Parents(R, m) : m \in AncestorsAt(R, n, k - 1) \ {0}}

Levels == 1..(MaxId + 1)

\* n is a real node k >= 1 edges above d
IsRealAncestorAt(R, a, d, k) == a # 0 /\ a \in AncestorsAt(R, d, k)

RealDescendants(N, R, n) ==
    {d \in DOMAIN N : \E k \in Levels : IsRealAncestorAt(R, n, d, k)}

\* copies of rows from a to d, whatever tenant and depth
RowsBetween(R, a, d) == {r \in DOMAIN R : r.AncestorID = a /\ r.DescendantID = d}

CopiesBetween(R, a, d) == SumOver(RowsBetween(R, a, d), R)

StoredTenants == {DefaultTenant, OtherTenant}

NodesOf(N, t) == [i \in {j \in DOMAIN N : N[j].Tenant = t} |-> N[i]]

RelsOf(R, t) == [r \in {x \in DOMAIN R : x.Tenant = t} |-> R[r]]

Succeeded(op) == last.op = op /\ last.err = ""

\* ---------------------------------------------------------------- claims

\* C1: after any sequence of Add, Move and DeleteRecurse calls, for every existing
\* node N and every real ancestor A of N at k edges the relation table holds
\* exactly one row (A, N, tenant, k), and no positive-depth row between two real
\* nodes that are not ancestor and descendant.
C1_ClosureExact ==
    /\ \A n \in DOMAIN nodes : \A k \in Levels : \A a \in DOMAIN nodes :
          IsRealAncestorAt(rels, a, n, k) =>
              /\ CopiesBetween(rels, a, n) = 1
              /\ Copies(rels, closureTree(a, n, nodes[n].Tenant, k)) = 1
    /\ \A r \in DOMAIN rels :
          (r.Depth > 0 /\ r.AncestorID \in DOMAIN nodes /\ r.DescendantID \in DOMAIN nodes)
              => \E k \in Levels : IsRealAncestorAt(rels, r.AncestorID, r.DescendantID, k)
\* C2: a call of Add, Update, Move or DeleteRecurse made with tenant T1 leaves the
\* node rows and the relation rows of every other tenant T2 exactly as they were,
\* whatever id it is given (0 included).
C2_OtherTenantUntouched ==
    last.op \in {"Add", "Update", "Move", "DeleteRecurse"} =>
        \A t2 \in StoredTenants \ {defaultTenant(last.tenant)} :
            /\ NodesOf(nodes, t2) = NodesOf(pre.nodes, t2)
            /\ RelsOf(rels, t2) = RelsOf(pre.rels, t2)

\* C3: Move(n, d, t) of an existing node n of tenant t to d = n or to a descendant
\* d of n fails with InvalidMove and changes no node row and no relation row.
C3_MoveIntoSubtreeInvalid ==
    ( /\ last.op = "Move"
      /\ last.a \in DOMAIN pre.nodes
      /\ pre.nodes[last.a].Tenant = defaultTenant(last.tenant)
      /\ \/ last.b = last.a
         \/ last.b \in RealDescendants(pre.nodes, pre.rels, last.a) )
    => /\ last.err = "InvalidMove"
       /\ nodes = pre.nodes
       /\ rels = pre.rels

\* C8: DescendantIds(0, 0, t) returns every existing node of tenant t, each exactly
\* once, and nothing else.
C8_RootListsAllOnce ==
    \A t \in TenantArgs : \A i \in DOMAIN nodes :
        DescendantIdsCount(nodes, rels, 0, 0, t, i) =
            (IF nodes[i].Tenant = defaultTenant(t) THEN 1 ELSE 0)

\* C10: every existing node has exactly one relation row (id, id, tenant, 0), and
\* no depth-0 row exists for an id that is not an existing node.
C10_Reflexive ==
    /\ \A i \in DOMAIN nodes :
          /\ Copies(rels, closureTree(i, i, nodes[i].Tenant, 0)) = 1
          /\ SumOver({r \in RowsBetween(rels, i, i) : r.Depth = 0}, rels) = 1
    /\ \A r \in DOMAIN rels :
          r.Depth = 0 => r.AncestorID = r.DescendantID /\ r.DescendantID \in DOMAIN nodes
\* n and the nodes below it, each with its distance from n, in the tree R describes
SubtreeAt(N, R, n) ==
    {<<n, 0>>} \cup {<<d, k>> \in (DOMAIN N) \X Levels : IsRealAncestorAt(R, n, d, k)}

SubtreeNodes(N, R, n) == {dk[1] : dk \in SubtreeAt(N, R, n)}

\* <<ancestor, depth>> of the rows that reach d from outside the set sub
OutsideRows(R, d, sub) ==
    {<<r.AncestorID, r.Depth>> : r \in {x \in DOMAIN R : x.DescendantID = d /\ x.AncestorID \notin sub}}

\* C4: after a successful Move(n, p, t) with p # 0, for every D in n's subtree the
\* ancestors of D outside that subtree are exactly p, the ancestors of p and the
\* virtual root 0, each A at depth(A to p) + depth(n to D) + 1; no row from a
\* former ancestor that is not p or an ancestor of p remains.
C4_MoveNewAncestors ==
    (Succeeded("Move") /\ last.b # 0 /\ last.a \in DOMAIN pre.nodes) =>
        LET sub == SubtreeNodes(pre.nodes, pre.rels, last.a)
            above == {<<last.b, 0>>} \cup
                     {<<a, k>> \in (0..MaxId) \X Levels : a \in AncestorsAt(pre.rels, last.b, k)}
        IN  \A dk \in SubtreeAt(pre.nodes, pre.rels, last.a) :
                /\ OutsideRows(rels, dk[1], sub) = {<<ak[1], ak[2] + dk[2] + 1>> : ak \in above}
                /\ \E k \in Levels : <<0, k>> \in OutsideRows(rels, dk[1], sub)

\* C5: after a successful Move(n, 0, t), n has the root marker (0, n, t, 1), every
\* proper descendant D of n has a row from the virtual root 0 at depth(n to D) + 1,
\* and no row from a former real ancestor of n to n or to a descendant remains.
C5_MoveToRoot ==
    (Succeeded("Move") /\ last.b = 0 /\ last.a \in DOMAIN pre.nodes) =>
        LET n == last.a
            t == pre.nodes[n].Tenant
            former == {a \in DOMAIN pre.nodes : \E k \in Levels : IsRealAncestorAt(pre.rels, a, n, k)}
        IN  /\ Copies(rels, closureTree(0, n, t, 1)) >= 1
            /\ \A dk \in SubtreeAt(pre.nodes, pre.rels, n) :
                  /\ dk[2] > 0 => Copies(rels, closureTree(0, dk[1], t, dk[2] + 1)) >= 1
                  /\ \A a \in former : RowsBetween(rels, a, dk[1]) = {}

\* the nodes the relation table lists below n (rows with ancestor_id = n), n included
ListedBelow(R, n) == {n} \cup {r.DescendantID : r \in {x \in DOMAIN R : x.AncestorID = n}}

\* what C6 asks of a successful DeleteRecurse(n, t), gone being n and its former descendants
DeleteRecursePost(gone) ==
    LET into(R, i) == [r \in {x \in DOMAIN R : x.DescendantID = i} |-> R[r]]
    IN  /\ \A g \in gone : GetNode(nodes, g, last.tenant).err = "NodeNotFound"
        /\ \A r \in DOMAIN rels : r.AncestorID \notin gone /\ r.DescendantID \notin gone
        /\ \A i \in DOMAIN pre.nodes :
              (i \notin gone /\ pre.nodes[i].Tenant = last.tenant) =>
                  /\ i \in DOMAIN nodes
                  /\ nodes[i] = pre.nodes[i]
                  /\ into(rels, i) = into(pre.rels, i)

\* C6: after a successful DeleteRecurse(n, t), GetNode fails with NodeNotFound for n
\* and for every node that was a descendant of n, no relation row has any of them
\* as ancestor or descendant, and every other node of tenant t still exists with
\* its relations unchanged.  The descendants of n are read either way: as the
\* nodes below n in the tree, or as the nodes the relation table lists below n.
C6_DeleteRecurseComplete ==
    (Succeeded("DeleteRecurse") /\ last.a \in DOMAIN pre.nodes) =>
        \/ DeleteRecursePost(SubtreeNodes(pre.nodes, pre.rels, last.a))
        \/ DeleteRecursePost(ListedBelow(pre.rels, last.a))

\* C7: after a successful Add(n, p, t) with p # 0, DescendantIds(p, 0, t) contains
\* the new id, and so does DescendantIds(a, 0, t) for every ancestor a of p; the
\* new node is recorded one edge deeper below each of them than p is.
C7_AddPropagates ==
    (Succeeded("Add") /\ last.b # 0) =>
        LET t == defaultTenant(last.tenant)
            above == {<<last.b, 0>>} \cup
                     {<<a, k>> \in (DOMAIN pre.nodes) \X Levels :
                          IsRealAncestorAt(pre.rels, a, last.b, k)}
        IN  \A ak \in above :
                /\ last.id \in DescendantIds(nodes, rels, ak[1], 0, last.tenant)
                /\ Copies(rels, closureTree(ak[1], last.id, t, ak[2] + 1)) >= 1
\* C9: every operation that takes a tenant returns the same result and makes the
\* same state change when called with the empty tenant string as when called with
\* DefaultTenant.  (TreeDescendants and TreeDescendantsIds run the same
\* normalisation as DescendantIds and add no case.)
C9_EmptyTenantIsDefault ==
    \A a \in IdArgs : \A b \in IdArgs : \A m \in DepthArgs :
        /\ \A name \in AddNames :
              Add(nodes, rels, lastId, name, b, "") = Add(nodes, rels, lastId, name, b, DefaultTenant)
        /\ \A name \in UpdateNames :
              Update(nodes, rels, lastId, a, name, "") = Update(nodes, rels, lastId, a, name, DefaultTenant)
        /\ Move(nodes, rels, lastId, a, b, "") = Move(nodes, rels, lastId, a, b, DefaultTenant)
        /\ DeleteRecurse(nodes, rels, lastId, a, "") = DeleteRecurse(nodes, rels, lastId, a, DefaultTenant)
        /\ GetNode(nodes, a, "") = GetNode(nodes, a, DefaultTenant)
        /\ \A i \in DOMAIN nodes :
              DescendantIdsCount(nodes, rels, a, m, "", i)
                  = DescendantIdsCount(nodes, rels, a, m, DefaultTenant, i)
        /\ Descendants(nodes, rels, a, m, "") = Descendants(nodes, rels, a, m, DefaultTenant)

\* the depth-1 rows from the virtual root 0 to i, whatever tenant they carry
RootMarkers(R, i) == {r \in RowsBetween(R, 0, i) : r.Depth = 1}

\* C11: after any sequence of Add, Move and DeleteRecurse calls, a node that has no
\* real parent has the relation (0, id, tenant, 1) exactly once, and a node that
\* has a real parent has no depth-1 relation from ancestor 0.
C11_RootMarker ==
    \A i \in DOMAIN nodes :
        IF Parents(rels, i) \ {0} = {}
        THEN /\ Copies(rels, closureTree(0, i, nodes[i].Tenant, 1)) = 1
             /\ SumOver(RootMarkers(rels, i), rels) = 1
        ELSE RootMarkers(rels, i) = {}

\* C12: after any sequence of Add, Move and DeleteRecurse calls run one at a time,
\* the relation contains no positive-depth row (a, a) and no pair of positive-depth
\* rows (a, d) and (d, a): no node is its own proper ancestor.
C12_NoCycle ==
    \A r \in DOMAIN rels :
        r.Depth > 0 =>
            /\ r.AncestorID # r.DescendantID
            /\ \A q \in DOMAIN rels :
                  q.Depth > 0 =>
                      ~(q.AncestorID = r.DescendantID /\ q.DescendantID = r.AncestorID)

\* C13: in every state reachable by Add, Update, Move and DeleteRecurse, the tenant
\* stored in each relation row equals the tenant of its descendant node, and equals
\* the tenant of its ancestor node unless the ancestor is the virtual root 0 (a row
\* whose ancestor has been deleted has no ancestor node to compare with).
C13_RowTenant ==
    \A r \in DOMAIN rels :
        /\ r.DescendantID \in DOMAIN nodes
        /\ r.Tenant = nodes[r.DescendantID].Tenant
        /\ r.AncestorID \in DOMAIN nodes => r.Tenant = nodes[r.AncestorID].Tenant

\* both tenants hold a parent with a child, and the last call moved a node below another
C13_Witness ==
    /\ Succeeded("Move") /\ last.b # 0
    /\ \A t \in StoredTenants :
          \E r \in DOMAIN rels :
              /\ r.Tenant = t /\ r.Depth = 1 /\ r.AncestorID # 0
              /\ r.AncestorID \in DOMAIN nodes /\ r.DescendantID \in DOMAIN nodes

\* the node ids one of the four descendant queries returns for (parent, m, t)
Returned(query, parent, m, t) ==
    CASE query = "Descendants" ->
             {l[1] : l \in DOMAIN Descendants(nodes, rels, parent, m, t)}
      [] query = "DescendantIds" -> DescendantIds(nodes, rels, parent, m, t)
      [] query = "TreeDescendants" -> TreeDescendants(nodes, rels, parent, m, t)
      [] query = "TreeDescendantsIds" -> TreeDescendantsIds(nodes, rels, parent, m, t)

DescendantQueries == {"Descendants", "DescendantIds", "TreeDescendants", "TreeDescendantsIds"}

\* C14: for every state, parent id, depth limit and tenant t, every node returned by
\* Descendants, DescendantIds, TreeDescendants and TreeDescendantsIds is a node of
\* tenant t; in particular, a parent id that exists only under another tenant gives
\* an empty result.
C14_QueriesStayInTenant ==
    \A query \in DescendantQueries : \A parent \in IdArgs : \A m \in DepthArgs :
        \A t \in TenantArgs :
            LET got == Returned(query, parent, m, t)
            IN  /\ \A i \in got : i \in DOMAIN nodes /\ nodes[i].Tenant = defaultTenant(t)
                /\ (parent \in DOMAIN nodes /\ nodes[parent].Tenant # defaultTenant(t))
                       => got = {}

\* a parent of DefaultTenant with a child, asked for under both tenants, while the
\* other tenant holds a parent with a child of its own
C14_Witness ==
    \E p \in DOMAIN nodes : \E q \in DOMAIN nodes :
        /\ nodes[p].Tenant = DefaultTenant /\ nodes[q].Tenant = OtherTenant
        /\ \A query \in DescendantQueries :
              /\ Returned(query, p, 0, DefaultTenant) # {}
              /\ Returned(query, q, 0, OtherTenant) # {}
              /\ Returned(query, p, 0, OtherTenant) = {}

\* p is the parent of n in the tree R describes; the parent of a root is 0
IsParentOf(R, p, n) ==
    IF p = 0 THEN Parents(R, n) \ {0} = {} ELSE p \in Parents(R, n)

\* C15: Move(n, p, t) where p is already the parent of n (p = 0 when n is a root)
\* fails with InvalidMove and changes no row; in particular, repeating a Move that
\* has just succeeded fails with InvalidMove.
C15_MoveToSameParent ==
    /\ ( /\ last.op = "Move"
         /\ GetNode(pre.nodes, last.a, last.tenant).err = ""
         /\ IsParentOf(pre.rels, last.b, last.a) )
       => (last.err = "InvalidMove" /\ nodes = pre.nodes /\ rels = pre.rels)
    /\ Succeeded("Move")
       => Move(nodes, rels, lastId, last.a, last.b, last.tenant)
              = Result(nodes, rels, lastId, "InvalidMove", 0)

\* C16: Move(n, p, t) fails with NodeNotFound, and changes no node row and no
\* relation row of any tenant, whenever n does not exist under tenant t or p # 0
\* does not exist under tenant t, including when n or p exists under another tenant.
C16_MoveNodeNotFound ==
    ( /\ last.op = "Move"
      /\ \/ GetNode(pre.nodes, last.a, last.tenant).err = "NodeNotFound"
         \/ last.b # 0 /\ GetNode(pre.nodes, last.b, last.tenant).err = "NodeNotFound" )
    => (last.err = "NodeNotFound" /\ nodes = pre.nodes /\ rels = pre.rels)

\* what C17 asks of a successful Move(n, p, t), sub being the subtree of n: no node
\* row changed, and every relation row inside sub or into a node outside sub is
\* there exactly as often as before
MoveFrame(sub) ==
    /\ nodes = pre.nodes
    /\ \A r \in (DOMAIN rels) \cup (DOMAIN pre.rels) :
          ( \/ r.AncestorID \in sub /\ r.DescendantID \in sub
            \/ r.DescendantID \notin sub )
          => Copies(rels, r) = Copies(pre.rels, r)

\* C17: a successful Move(n, p, t) changes no node row, no relation row whose
\* ancestor and descendant are both in n's subtree (so the depth between n and each
\* of its descendants is the same before and after), and no relation row whose
\* descendant is outside n's subtree.  The subtree of n is read either way: as n
\* and the nodes below it in the tree, or as n and the nodes the relation table
\* lists below it.
C17_MoveFrame ==
    Succeeded("Move") =>
        \/ MoveFrame(SubtreeNodes(pre.nodes, pre.rels, last.a))
        \/ MoveFrame(ListedBelow(pre.rels, last.a))

\* C18: if a statement of Add, Move or DeleteRecurse fails, or the call is cancelled,
\* after an earlier statement of the same call has already written, the node table
\* and the relation table end up exactly as they were before the call and the call
\* returns an error.
C18_FailedCallRollsBack ==
    \A p \in Procs :
        (tx[p].st = "done" /\ tx[p].failed) =>
            /\ nodes = pre.nodes
            /\ rels = pre.rels
            /\ tx[p].err # ""
            /\ last.err # ""

\* a Move whose delete statement failed after its insert statement had added rows
C18_Witness ==
    \E p \in Procs :
        /\ tx[p].st = "done" /\ tx[p].failed
        /\ tx[p].op = "Move" /\ tx[p].pc = 3
        /\ \E r \in DOMAIN rels : r.Depth = 2

\* some node of R is its own proper ancestor: a positive-depth row (a, a), or a
\* pair of positive-depth rows (a, d) and (d, a)
HasCycle(R) ==
    \E r \in DOMAIN R : \E q \in DOMAIN R :
        /\ r.Depth > 0 /\ q.Depth > 0
        /\ q.AncestorID = r.DescendantID /\ q.DescendantID = r.AncestorID

\* every node of N has exactly one path to each of its real ancestors: one row, in one
\* copy, from each node the relation table or the tree gives it as ancestor
OnePathEach(N, R) ==
    \A n \in DOMAIN N : \A a \in DOMAIN N :
        LET up == {r \in RowsBetween(R, a, n) : r.Depth > 0}
        IN  (up # {} \/ \E k \in Levels : IsRealAncestorAt(R, a, n, k))
                => SumOver(up, R) = 1

\* C19: for two Move calls on the same tenant that run concurrently, each in its own
\* transaction, with their guard queries and statements interleaved in any order,
\* the relation after both have finished still satisfies the closure invariants (as
\* it did before they began): no node is its own proper ancestor and every node has
\* exactly one path to each of its ancestors.
C19_ConcurrentMoves ==
    ( /\ \A p \in Procs : tx[p].st = "done" /\ tx[p].op = "Move"
      /\ ~HasCycle(pre.rels) /\ OnePathEach(pre.nodes, pre.rels) )
    => (~HasCycle(rels) /\ OnePathEach(nodes, rels))

\* C20: Add(item, p, t) with p # 0 fails with ParentNotFound, and creates no node row
\* and no relation row, whenever no node with id p exists under tenant t, including
\* when p exists under another tenant.
C20_AddParentNotFound ==
    ( /\ last.op = "Add" /\ last.b # 0
      /\ GetNode(pre.nodes, last.b, last.tenant).err = "NodeNotFound" )
    => (last.err = "ParentNotFound" /\ nodes = pre.nodes /\ rels = pre.rels)

\* an Add below a parent that exists, with a child of its own, under the other tenant
C20_Witness ==
    /\ last.op = "Add" /\ last.b \in DOMAIN pre.nodes
    /\ pre.nodes[last.b].Tenant # defaultTenant(last.tenant)
    /\ \E r \in DOMAIN pre.rels : r.AncestorID = last.b /\ r.Depth = 1
    /\ last.err = "ParentNotFound"


\* C21: an Add that returns nil has stored the node under an id that is not 0 and was
\* not the id of an existing node, and under the normalized tenant of the call,
\* whatever NodeId and Tenant the item carried; an item passed by reference then
\* holds that id and tenant, an item passed by value is as the caller passed it.
C21_AddAssignsIdAndTenant ==
    Succeeded("Add") =>
        /\ last.id # 0
        /\ last.id \notin DOMAIN pre.nodes
        /\ last.id \in DOMAIN nodes
        /\ nodes[last.id].Tenant = defaultTenant(last.tenant)
        /\ last.item.ptr =>
               last.back = [last.item EXCEPT !.NodeId = last.id,
                                             !.Tenant = defaultTenant(last.tenant)]
        /\ ~last.item.ptr => last.back = last.item

\* C22: a DeleteRecurse(n, t) whose n is not a node of tenant t (it does not exist,
\* or exists under another tenant) returns NodeNotFound and leaves both tables as
\* they were.
C22_DeleteRecurseNodeNotFound ==
    ( /\ last.op = "DeleteRecurse"
      /\ ~(last.a \in DOMAIN pre.nodes
            /\ pre.nodes[last.a].Tenant = defaultTenant(last.tenant)) ) =>
        /\ last.err = "NodeNotFound"
        /\ nodes = pre.nodes
        /\ rels = pre.rels

\* C23: an Update(id, item, t), whatever it returns, leaves the relation table as it
\* was, inserts and deletes no node row, changes no node row other than the row of id
\* under tenant t, and leaves the tenant of every row (so of that one) unchanged.
C23_UpdateFrame ==
    last.op = "Update" =>
        /\ rels = pre.rels
        /\ DOMAIN nodes = DOMAIN pre.nodes
        /\ \A i \in DOMAIN pre.nodes :
              /\ nodes[i].Tenant = pre.nodes[i].Tenant
              /\ nodes[i] # pre.nodes[i] =>
                    (i = last.a /\ pre.nodes[i].Tenant = defaultTenant(last.tenant))

\* C24: an Update(id, item, t) with an item that has Node returns nil when id is a
\* node of tenant t, and otherwise (no such id, or the id is a node of another
\* tenant) returns NodeNotFound and leaves both tables as they were.
C24_UpdateNodeNotFound ==
    (last.op = "Update" /\ last.item.kind \in ItemKinds) =>
        IF last.a \in DOMAIN pre.nodes
           /\ pre.nodes[last.a].Tenant = defaultTenant(last.tenant)
        THEN last.err = ""
        ELSE last.err = "NodeNotFound" /\ nodes = pre.nodes /\ rels = pre.rels

\* C25: a GetNode(id, t, item) with an item that has Node, passed by reference,
\* leaves both tables as they were; when id is a node of tenant t it returns nil and
\* the item holds that node, otherwise (no such id, or the id is a node of another
\* tenant only) it returns NodeNotFound.
C25_GetNode ==
    (last.op = "GetNode" /\ last.item.kind \in ItemKinds /\ last.item.ptr) =>
        /\ nodes = pre.nodes
        /\ rels = pre.rels
        /\ IF last.a \in DOMAIN nodes /\ nodes[last.a].Tenant = defaultTenant(last.tenant)
           THEN /\ last.err = ""
                /\ last.back.NodeId = last.a
                /\ last.back.Tenant = defaultTenant(last.tenant)
           ELSE last.err = "NodeNotFound"

\* the nodes of tenant t that lie k edges below p for some k >= 1, k <= m when m > 0
\* (the edges are the depth-1 rows; the roots lie one edge below the virtual root 0)
NodesBelow(p, m, t) ==
    {d \in DOMAIN nodes :
        /\ nodes[d].Tenant = defaultTenant(t)
        /\ \E k \in Levels : (m <= 0 \/ k <= m) /\ p \in AncestorsAt(rels, d, k)}

\* C26: in every state, for every parent p, depth limit m and tenant t, the nodes
\* DescendantIds(p, m, t) returns and the nodes Descendants(p, m, t) returns are
\* exactly the nodes of tenant t between 1 and m edges below p (at least one edge
\* below p when m <= 0), and p is not among them.
C26_DescendantsExact ==
    \A parent \in IdArgs, m \in DepthArgs, t \in TenantArgs :
        /\ DescendantIds(nodes, rels, parent, m, t) = NodesBelow(parent, m, t)
        /\ Returned("Descendants", parent, m, t) = NodesBelow(parent, m, t)
        /\ parent \notin DescendantIds(nodes, rels, parent, m, t)
        /\ parent \notin Returned("Descendants", parent, m, t)

\* the nodes k edges below p (the edges are the depth-1 rows; p can be the virtual root)
RECURSIVE NodesAt(_, _, _)
NodesAt(R, p, k) ==
    IF k = 0 THEN {p}
    ELSE LET above == NodesAt(R, p, k - 1)
         IN  {r.DescendantID : r \in {x \in DOMAIN R : x.Depth = 1 /\ x.AncestorID \in above}}
                 \ {0}

\* x is closer to p than y is: some path from p down to x is shorter than every
\* path from p down to y
Closer(p, x, y) ==
    /\ \E j \in Levels : y \in NodesAt(rels, p, j)
    /\ \E k \in Levels : /\ x \in NodesAt(rels, p, k)
                          /\ \A j \in Levels : y \in NodesAt(rels, p, j) => k < j

\* C27: in every state reachable by Add, Move and DeleteRecurse, for every parent,
\* depth limit and tenant, no order in which DescendantIds or Descendants can
\* return its lines puts a node before a node that is closer to the parent.
C27_OrderedByDepth ==
    \A parent \in IdArgs, m \in DepthArgs, t \in TenantArgs, byId \in BOOLEAN :
        \A c1, c2 \in OrderedRows(nodes, rels, parent, m, t, byId) :
            MayPrecede(c1, c2) => ~Closer(parent, c2.DescendantID, c1.DescendantID)

\* C28: in every state, for every parent, depth limit and tenant, each node that
\* Descendants returns is returned in exactly one row, and the parent id of that row
\* is the node's immediate parent (0 for a root).
C28_OneRowWithParent ==
    \A parent \in IdArgs, m \in DepthArgs, t \in TenantArgs :
        LET rows == Descendants(nodes, rels, parent, m, t)
        IN  \A l \in DOMAIN rows :
                /\ SumOver({x \in DOMAIN rows : x[1] = l[1]}, rows) = 1
                /\ Parents(rels, l[1]) = {l[2]}

\* the nodes of tenant t whose immediate parent is n
ChildrenOf(n, t) ==
    {d \in DOMAIN nodes : nodes[d].Tenant = defaultTenant(t) /\ n \in Parents(rels, d)}

\* C29: in every state, for every parent p, depth limit m and tenant t, the forest
\* TreeDescendantsIds and TreeDescendants build has every returned node in one
\* place only, its top-level entries are exactly the children of p in tenant t, and
\* the Children of an entry are exactly the children of that node, or none when
\* the entry is on level m > 0.
C29_Forest ==
    \A parent \in IdArgs, m \in DepthArgs, t \in TenantArgs, byId \in BOOLEAN :
        LET lines == TreeLines(nodes, rels, parent, m, t, byId)
            nm == nodeMap(lines)
            level(n) == 1 + (CHOOSE k \in TreeRounds : \E l \in lines : l[1] = n /\ l[3] = k)
        IN  /\ \A n \in DOMAIN nm : Cardinality(nm[n]) = 1
            /\ \A n \in DOMAIN nm :
                  Cardinality({l \in lines : l[1] = n}) = 1
            /\ trees(lines) = ChildrenOf(parent, t)
            /\ \A n \in DOMAIN nm :
                  Children(lines, n) =
                      IF m <= 0 \/ level(n) < m THEN ChildrenOf(n, t) ELSE {}

C35_MoveOfVirtualRoot ==
    (last.op = "Move" /\ last.a = 0) =>
        /\ last.err # ""
        /\ rels = pre.rels

\* the ids a call names as the nodes it works on: the parent of Add, the id of Update,
\* GetNode and DeleteRecurse, nodeId and newParentID of Move
Targets(c) ==
    CASE c.op = "Add" -> {c.b}
      [] c.op = "Move" -> {c.a, c.b}
      [] c.op \in {"Update", "GetNode", "DeleteRecurse"} -> {c.a}
      [] OTHER -> {}

\* the tables as they would be if no node with id i existed under any tenant
WithoutNode(N, i) == [j \in (DOMAIN N) \ {i} |-> N[j]]

WithoutRows(R, i) ==
    BagWithout(R, {r \in DOMAIN R : r.AncestorID = i \/ r.DescendantID = i})

\* the error call c returns on the tables N and R
Outcome(N, R, L, c, changedOnly) ==
    CASE c.op = "Add" -> AddItem(N, R, L, c.item, c.name, c.b, c.tenant).err
      [] c.op = "Update" ->
            UpdateItem(N, R, L, c.a, c.item, c.name, c.tenant, changedOnly).err
      [] c.op = "Move" -> Move(N, R, L, c.a, c.b, c.tenant).err
      [] c.op = "DeleteRecurse" -> DeleteRecurse(N, R, L, c.a, c.tenant).err
      [] c.op = "GetNode" -> GetNodeItem(N, c.a, c.tenant, c.item).err
      [] OTHER -> ""

\* C31: a call of Update, Move, DeleteRecurse, GetNode or Add with tenant t that names
\* an id existing under another tenant only changes neither table and returns the
\* error the same call returns when that id exists under no tenant.
C31_OtherTenantLooksAbsent ==
    \A i \in Targets(last) :
        (i \in DOMAIN pre.nodes /\ pre.nodes[i].Tenant # defaultTenant(last.tenant)) =>
            /\ nodes = pre.nodes
            /\ rels = pre.rels
            /\ last.err # ""
            /\ \A changedOnly \in BOOLEAN :
                  last.err = Outcome(WithoutNode(pre.nodes, i), WithoutRows(pre.rels, i),
                                     lastId, last, changedOnly)

\* the error a call of Add, Update or GetNode gives on its id, parent and tenant
\* arguments alone, that is with an item that embeds Node, passed by reference
OnArguments(c) ==
    Outcome(pre.nodes, pre.rels, lastId,
            [c EXCEPT !.item = [kind |-> "embeds", ptr |-> TRUE, NodeId |-> 0, Tenant |-> ""]],
            FALSE)

\* C32: a call of Add, Update or GetNode whose item has no Node returns
\* ItemIsNotTreeNode and leaves the node table, the relation table and the item as
\* they were, for every id, parent and tenant argument and in every state of the
\* storage, also where the arguments alone give NodeNotFound or ParentNotFound.
C32_ItemIsNotTreeNode ==
    (last.op \in {"Add", "Update", "GetNode"} /\ last.item.kind \in OtherKinds) =>
        /\ last.err = "ItemIsNotTreeNode"
        /\ nodes = pre.nodes
        /\ rels = pre.rels
        /\ last.back = last.item

\* a call with such an item, on a storage that holds nodes, whose other arguments
\* name a parent or a node that is missing under the tenant
C32_Witness ==
    /\ DOMAIN pre.nodes # {}
    /\ last.item.kind \in OtherKinds
    /\ last.err = "ItemIsNotTreeNode"
    /\ \/ last.op = "Add" /\ OnArguments(last) = "ParentNotFound"
       \/ last.op = "Update" /\ OnArguments(last) = "NodeNotFound"
       \/ last.op = "GetNode" /\ OnArguments(last) = "NodeNotFound"

\* node n is a root with its marker, or hangs by a depth-1 row below an existing node
Attached(N, R, n) ==
    \/ closureTree(0, n, N[n].Tenant, 1) \in DOMAIN R
    \/ \E r \in DOMAIN R :
          r.DescendantID = n /\ r.Depth = 1 /\ r.AncestorID \in DOMAIN N

\* C33: after an Add below p and a DeleteRecurse of q, q being p or an ancestor of p,
\* have both finished, run one after the other or with the parent check of Add and
\* the statements of the two transactions interleaved, every node that exists is a
\* root with its marker or has a depth-1 row from an existing parent.
C33_AddDuringDeleteRecurse ==
    ( /\ tx[1].st = "done" /\ tx[1].op = "Add"
      /\ tx[2].st = "done" /\ tx[2].op = "DeleteRecurse"
      /\ tx[1].b \in DOMAIN pre.nodes /\ tx[2].a \in DOMAIN pre.nodes
      /\ IsDescendant(pre.rels, tx[2].a, tx[1].b, DefaultTenant) )
    => \A n \in DOMAIN nodes : Attached(nodes, rels, n)

\* the ancestors the rows of R give node n, each with its depth
PathsInto(R, n) ==
    {<<r.AncestorID, r.Depth>> : r \in {x \in DOMAIN R : x.DescendantID = n}}

\* C34: after an Add below p and a Move of m, m being p or an ancestor of p, have
\* both committed, in whatever order their reads and statements ran, the rows into
\* the new node are its reflexive row and one path to each ancestor of p as p has
\* them then (0 included), one level deeper: no path to a former ancestor of p and
\* none missing to a new one.
C34_AddDuringMove ==
    ( /\ tx[1].st = "done" /\ tx[1].op = "Add" /\ tx[1].err = ""
      /\ tx[2].st = "done" /\ tx[2].op = "Move" /\ tx[2].err = ""
      /\ tx[1].b \in DOMAIN pre.nodes
      /\ IsDescendant(pre.rels, tx[2].a, tx[1].b, DefaultTenant) )
    => PathsInto(rels, tx[1].id) =
          {<<tx[1].id, 0>>} \cup {<<a[1], a[2] + 1>> : a \in PathsInto(rels, tx[1].b)}

\* C36: in every state, for every parent p (0 included), depth limit m and tenant t,
\* the ids of the nodes in the forest TreeDescendantsIds(p, m, t) returns are the ids
\* DescendantIds(p, m, t) returns.
C36_ForestIdsAreDescendantIds ==
    \A parent \in IdArgs, m \in DepthArgs, t \in TenantArgs :
        LET nm == nodeMap(TreeLines(nodes, rels, parent, m, t, TRUE))
        IN  \A f \in nodeMaps(nm, DOMAIN nm) :
                forestIds(f) = DescendantIds(nodes, rels, parent, m, t)

\* C37: a Move(n, p2, t) of a node n of tenant t whose parent is p1, to a p2 that is
\* 0 or a node of tenant t and is neither p1 nor n nor a descendant of n, returns
\* nil, and Move(n, p1, t) called next returns nil and leaves the relation table,
\* row by row and copy by copy, as it was before the first Move.
C37_MoveThereAndBack ==
    LET t == defaultTenant(last.tenant)
        n == last.a
        p2 == last.b
    IN  \A p1 \in IdArgs :
          ( /\ last.op = "Move"
            /\ n \in DOMAIN pre.nodes /\ pre.nodes[n].Tenant = t
            /\ Parents(pre.rels, n) = {p1}
            /\ p2 = 0 \/ (p2 \in DOMAIN pre.nodes /\ pre.nodes[p2].Tenant = t)
            /\ p2 # p1 /\ p2 # n /\ ~IsDescendant(pre.rels, n, p2, t) )
          => /\ last.err = ""
             /\ LET back == Move(nodes, rels, lastId, n, p1, last.tenant)
                IN  back.err = "" /\ back.rels = pre.rels

\* C38: in every state every existing node has exactly one relation row of depth 1
\* into it (one copy of one row), and the ancestor of that row is the virtual root 0
\* or an existing node of the node's tenant, its parent.
C38_OneParentRow ==
    \A n \in DOMAIN nodes :
        LET up == {r \in DOMAIN rels : r.DescendantID = n /\ r.Depth = 1}
        IN  /\ SumOver(up, rels) = 1
            /\ \A r \in up :
                  \/ r.AncestorID = 0
                  \/ /\ r.AncestorID \in DOMAIN nodes
                     /\ nodes[r.AncestorID].Tenant = nodes[n].Tenant

\* C39: in every state the descendant of every relation row is an existing node and
\* its ancestor is 0 or an existing node.
C39_NoDanglingRow ==
    \A r \in DOMAIN rels :
        /\ r.DescendantID \in DOMAIN nodes
        /\ r.AncestorID = 0 \/ r.AncestorID \in DOMAIN nodes
====
